---- MODULE Spec2Model ----
(***************************************************************************)
(* Multiplicative-blinding DH-OPRF of opaque-ke (src/src/oprf.rs).         *)
(*                                                                         *)
(* The three steps generate_oprf1 / generate_oprf2 / generate_oprf3 are    *)
(* translated from the source.  The Group trait (crate::group) is not part *)
(* of the source file; its operations are modelled from the data model of  *)
(* the specification: a cyclic group of prime order Q, an element written  *)
(* as its discrete logarithm e (the point e*B), scalars the field Z_Q.     *)
(* HKDF-extract is HMAC keyed by the salt; it is modelled as a collision-  *)
(* free term over the HMAC key and the message.                            *)
(***************************************************************************)
EXTENDS Integers, Sequences, FiniteSets, TLC

VARIABLES
    oprf_key,   \* the server's long-lived key scalar
    arg_input,  \* SpecFn: the client's input bytes
    arg_pepper, \* SpecFn: the optional pepper
    arg_rng,    \* SpecFn: the supplied RNG, as the scalars it still yields
    pc,         \* SpecFn: position in the test pipeline
    client,     \* SpecFn: Result<OprfClientBytes> returned by generate_oprf1
    beta,       \* SpecFn: Result<G> returned by generate_oprf2
    out,        \* SpecFn: result of generate_oprf3
    call,       \* SpecFn: arguments and result of a stand-alone call
    sess        \* Spec: the independent OPRF sessions

vars == <<oprf_key, arg_input, arg_pepper, arg_rng, pc, client, beta, out, call, sess>>

-----------------------------------------------------------------------------
(* Bounds of the model *)

MaxLen == 2

MaxPepperLen == 1

RngLen == 2

MaxFinalize == 2

Byte == {0, 1}

RECURSIVE SeqsUpTo(_)
SeqsUpTo(n) ==
    IF n = 0 THEN {<<>>}
    ELSE LET shorter == SeqsUpTo(n - 1)
         IN  shorter \cup {Append(s, b) : s \in shorter, b \in Byte}

SeqsOfLen(n) == {s \in SeqsUpTo(n) : Len(s) = n}

-----------------------------------------------------------------------------
(* Result<T, InternalPakeError>, Option<&[u8]> *)

Ok(v) == [tag |-> "Ok", val |-> v]

Err(e) == [tag |-> "Err", val |-> e]

Panic == [tag |-> "Panic", val |-> "scalar_invert"]

IsOk(r) == r.tag = "Ok"

None == [some |-> FALSE, bytes |-> <<>>]

Some(b) == [some |-> TRUE, bytes |-> b]

NotCalled == [tag |-> "NotCalled", val |-> "-"]

-----------------------------------------------------------------------------
(* The Group contract: a cyclic group of prime order Q *)

Q == 5

ElemLen == 3

Elements == 0 .. (Q - 1)

Scalars == 0 .. (Q - 1)

NonZeroScalars == 1 .. (Q - 1)

\* Element x Scalar -> Element
mul(point, scalar) == (point * scalar) % Q

RECURSIVE Digits(_, _)
Digits(v, n) ==
    IF n = 0 THEN <<>>
    ELSE Append(Digits(v \div Cardinality(Byte), n - 1), v % Cardinality(Byte))

RECURSIVE Value(_)
Value(bytes) ==
    IF bytes = <<>> THEN 0
    ELSE Value(SubSeq(bytes, 1, Len(bytes) - 1)) * Cardinality(Byte)
         + bytes[Len(bytes)]

\* the canonical fixed-length encoding of an element
to_arr(point) == Digits(point, ElemLen)

\* decoding of an element; only canonical encodings of group elements pass
from_element_slice(bytes) ==
    IF Len(bytes) = ElemLen /\ Value(bytes) < Q
    THEN Ok(Value(bytes))
    ELSE Err("InvalidPointError")

\* the canonical fixed-length encoding of a scalar
as_bytes(scalar) == Digits(scalar, ElemLen)

from_scalar_slice(bytes) ==
    IF Len(bytes) = ElemLen /\ Value(bytes) < Q
    THEN Ok(Value(bytes))
    ELSE Err("InvalidScalarError")

\* multiplicative inversion; the additive identity has no inverse and the
\* signature used by generate_oprf3 returns a bare Scalar, so for 0 every
\* scalar, or no return at all, is a possible outcome
scalar_invert(scalar) ==
    IF scalar = 0
    THEN {[ok |-> TRUE, val |-> t] : t \in Scalars} \cup {[ok |-> FALSE, val |-> 0]}
    ELSE {[ok |-> TRUE, val |-> t] : t \in {u \in NonZeroScalars : (scalar * u) % Q = 1}}

\* uniform sampling of a valid scalar from the supplied RNG
random_scalar(r) == [scalar |-> Head(r), rng |-> Tail(r)]

RECURSIVE Fold(_)
Fold(bytes) ==
    IF bytes = <<>> THEN 0
    ELSE 2 * Fold(SubSeq(bytes, 1, Len(bytes) - 1)) + bytes[Len(bytes)] + 1

\* a deterministic map of uniform bytes to a generator of the group
hash_to_curve(uniform) == 1 + ((3 * Fold(uniform.key) + Fold(uniform.ikm)) % (Q - 1))

-----------------------------------------------------------------------------
(* HKDF-extract = HMAC-Hash(key = salt, message = ikm) *)

RECURSIVE HmacKey(_)
HmacKey(salt) ==
    IF salt = <<>> THEN <<>>
    ELSE IF salt[Len(salt)] = 0 THEN HmacKey(SubSeq(salt, 1, Len(salt) - 1))
    ELSE salt

Hkdf_extract(hash, salt, ikm) ==
    [hash |-> hash, key |-> HmacKey(salt.bytes), ikm |-> ikm]

D == "Sha512"

-----------------------------------------------------------------------------
(* src/src/oprf.rs *)

OprfClientBytes(alpha, blinding_factor) ==
    [alpha |-> alpha, blinding_factor |-> blinding_factor]

\* generate_oprf1 with the multiplication by the blinding factor left out
generate_oprf1_unblinded(input, pepper, blinding_factor_rng) ==
    LET hashed_input == Hkdf_extract(D, pepper, input)
        draw == random_scalar(blinding_factor_rng)
        alpha == hash_to_curve(hashed_input)
    IN  [res |-> Ok(OprfClientBytes(alpha, draw.scalar)), rng |-> draw.rng]

\* generate_oprf1 with the pepper dropped from the HKDF call
generate_oprf1_nopepper(input, pepper, blinding_factor_rng) ==
    LET hashed_input == Hkdf_extract(D, None, input)
        draw == random_scalar(blinding_factor_rng)
        alpha == mul(hash_to_curve(hashed_input), draw.scalar)
    IN  [res |-> Ok(OprfClientBytes(alpha, draw.scalar)), rng |-> draw.rng]

\* the result of generate_oprf1 and the RNG as the call leaves it
generate_oprf1(input, pepper, blinding_factor_rng) ==
    LET hashed_input == Hkdf_extract(D, pepper, input)
        draw == random_scalar(blinding_factor_rng)
        blinding_factor == draw.scalar
        alpha == mul(hash_to_curve(hashed_input), blinding_factor)
    IN  [res |-> Ok(OprfClientBytes(alpha, blinding_factor)), rng |-> draw.rng]

generate_oprf2(point, key) == Ok(mul(point, key))

\* generate_oprf3 multiplying by the blinding factor instead of its inverse
generate_oprf3_noinvert(input, point, blinding_factor) ==
    {Ok(Hkdf_extract("Sha256", None, to_arr(mul(point, blinding_factor)) \o input))}

\* generate_oprf3 hashing the point as received, without unblinding it
generate_oprf3_nounblind(input, point, blinding_factor) ==
    {Ok(Hkdf_extract("Sha256", None, to_arr(point) \o input))}

\* generate_oprf3 concatenating the input before the encoded point
generate_oprf3_swapped(input, point, blinding_factor) ==
    { IF inv.ok
      THEN Ok(Hkdf_extract("Sha256", None, input \o to_arr(mul(point, inv.val))))
      ELSE Panic
      : inv \in scalar_invert(blinding_factor) }

\* the set of outcomes of generate_oprf3: one for an invertible factor
generate_oprf3(input, point, blinding_factor) ==
    { IF inv.ok
      THEN LET unblinded == mul(point, inv.val)
               ikm == to_arr(unblinded) \o input
           IN  Ok(Hkdf_extract("Sha256", None, ikm))
      ELSE Panic
      : inv \in scalar_invert(blinding_factor) }

\* tests::prf, the reference computed without blinding
prf(input, key_bytes) ==
    LET hashed_input == Hkdf_extract("Sha512", None, input)
        point == hash_to_curve(hashed_input)
        scalar == from_scalar_slice(key_bytes).val
        res == mul(point, scalar)
        ikm == to_arr(res) \o input
    IN  Hkdf_extract("Sha256", None, ikm)

\* Evaluate computing on whatever the bytes reduce to, without validation
evaluate_unchecked(alpha_wire, key) ==
    LET res == generate_oprf2(Value(alpha_wire) % Q, key)
    IN  IF IsOk(res) THEN Ok(to_arr(res.val)) ELSE res

\* Evaluate on wire bytes: decode and validate, multiply, encode
evaluate(alpha_wire, key) ==
    LET point == from_element_slice(alpha_wire)
    IN  IF ~IsOk(point) THEN point
        ELSE LET res == generate_oprf2(point.val, key)
             IN  IF IsOk(res) THEN Ok(to_arr(res.val)) ELSE res

\* Unblind+Finalize on wire bytes: decode and validate, then generate_oprf3
finalize(input, beta_wire, blinding_factor) ==
    LET point == from_element_slice(beta_wire)
    IN  IF ~IsOk(point) THEN {point}
        ELSE generate_oprf3(input, point.val, blinding_factor)

-----------------------------------------------------------------------------
(* SpecFn: the functions applied to inputs drawn from bounded sets, in the *)
(* order of tests::oprf_retrieval and tests::oprf_inversion_unsalted, and  *)
(* stand-alone calls of Evaluate and generate_oprf3 on arbitrary arguments *)

Inputs == SeqsUpTo(MaxLen)

Peppers == {None} \cup {Some(b) : b \in SeqsUpTo(MaxPepperLen)}

Rngs == [1 .. RngLen -> NonZeroScalars]

Wires == SeqsOfLen(ElemLen)

IdleSess ==
    [pc |-> "idle", input |-> <<>>, pepper |-> None, rng |-> <<>>,
     client |-> NotCalled, alpha_wire |-> <<>>, beta_wire |-> NotCalled,
     out |-> NotCalled, finalized |-> 0]

Sessions == {"s1", "s2"}

InitFn ==
    /\ oprf_key \in NonZeroScalars
    /\ arg_input \in Inputs
    /\ arg_pepper \in Peppers
    /\ arg_rng \in Rngs
    /\ pc = "start"
    /\ client = NotCalled
    /\ beta = NotCalled
    /\ out = NotCalled
    /\ call = NotCalled
    /\ sess = [i \in Sessions |-> IdleSess]

FnBlind ==
    /\ pc = "start"
    /\ Len(arg_rng) > 0
    /\ LET r == generate_oprf1(arg_input, arg_pepper, arg_rng)
       IN  /\ client' = r.res
           /\ arg_rng' = r.rng
    /\ pc' = "blinded"
    /\ UNCHANGED <<oprf_key, arg_input, arg_pepper, beta, out, call, sess>>

FnEvaluate ==
    /\ pc = "blinded"
    /\ IsOk(client)
    /\ beta' = generate_oprf2(client.val.alpha, oprf_key)
    /\ pc' = "evaluated"
    /\ UNCHANGED <<oprf_key, arg_input, arg_pepper, arg_rng, client, out, call, sess>>

FnFinalize ==
    /\ pc = "evaluated"
    /\ IsOk(beta)
    /\ out' \in generate_oprf3(arg_input, beta.val, client.val.blinding_factor)
    /\ pc' = "done"
    /\ UNCHANGED <<oprf_key, arg_input, arg_pepper, arg_rng, client, beta, call, sess>>

\* tests::oprf_inversion_unsalted: generate_oprf3 on alpha itself
FnInvert ==
    /\ pc = "blinded"
    /\ IsOk(client)
    /\ out' \in generate_oprf3(arg_input, client.val.alpha, client.val.blinding_factor)
    /\ pc' = "inverted"
    /\ UNCHANGED <<oprf_key, arg_input, arg_pepper, arg_rng, client, beta, call, sess>>

\* Evaluate on arbitrary received bytes
FnEvaluateWire ==
    /\ pc = "start"
    /\ \E w \in Wires :
          call' = [tag |-> "evaluate", val |-> [wire |-> w, res |-> evaluate(w, oprf_key)]]
    /\ pc' = "called"
    /\ UNCHANGED <<oprf_key, arg_input, arg_pepper, arg_rng, client, beta, out, sess>>

\* generate_oprf3 on an arbitrary point and an arbitrary scalar
FnFinalizeAny ==
    /\ pc = "start"
    /\ \E point \in Elements, bf \in Scalars :
          \E res \in generate_oprf3(arg_input, point, bf) :
             call' = [tag |-> "generate_oprf3",
                      val |-> [point |-> point, blinding_factor |-> bf, res |-> res]]
    /\ pc' = "called"
    /\ UNCHANGED <<oprf_key, arg_input, arg_pepper, arg_rng, client, beta, out, sess>>

NextFn ==
    \/ FnBlind
    \/ FnEvaluate
    \/ FnFinalize
    \/ FnInvert
    \/ FnEvaluateWire
    \/ FnFinalizeAny

SpecFn == InitFn /\ [][NextFn]_vars

-----------------------------------------------------------------------------
(* Spec: independent OPRF sessions against one server key.  Only alpha and *)
(* beta cross the wire, as canonical bytes; every step of a session is one *)
(* synchronous call, and the steps of different sessions interleave freely *)

SessInputs == {<<1>>, <<0, 1>>}

SessPeppers == {None, Some(<<1>>)}

SessRngs == {<<r>> : r \in NonZeroScalars}

Init ==
    /\ oprf_key \in NonZeroScalars
    /\ arg_input = <<>>
    /\ arg_pepper = None
    /\ arg_rng = <<>>
    /\ pc = "unused"
    /\ client = NotCalled
    /\ beta = NotCalled
    /\ out = NotCalled
    /\ call = NotCalled
    /\ sess = [i \in Sessions |-> IdleSess]

\* client: generate_oprf1 with the session's own RNG; alpha goes on the wire
Blind(i) ==
    /\ sess[i].pc = "idle"
    /\ \E m \in SessInputs, p \in SessPeppers, g \in SessRngs :
          LET r == generate_oprf1(m, p, g)
          IN  sess' = [sess EXCEPT ![i] =
                          [@ EXCEPT !.pc = "blinded", !.input = m, !.pepper = p,
                                    !.client = r.res, !.rng = r.rng,
                                    !.alpha_wire = to_arr(r.res.val.alpha)]]
    /\ UNCHANGED <<oprf_key, arg_input, arg_pepper, arg_rng, pc, client, beta, out, call>>

\* Evaluate that also advances (ratchets) the server key
Evaluate_rotates(i) ==
    /\ sess[i].pc = "blinded"
    /\ sess' = [sess EXCEPT ![i] =
                   [@ EXCEPT !.pc = "evaluated",
                             !.beta_wire = evaluate(sess[i].alpha_wire, oprf_key)]]
    /\ oprf_key' = 1 + (oprf_key % (Q - 1))
    /\ UNCHANGED <<arg_input, arg_pepper, arg_rng, pc, client, beta, out, call>>

\* server: generate_oprf2 reads the long-lived key, beta goes on the wire
Evaluate(i) ==
    /\ sess[i].pc = "blinded"
    /\ sess' = [sess EXCEPT ![i] =
                   [@ EXCEPT !.pc = "evaluated",
                             !.beta_wire = evaluate(sess[i].alpha_wire, oprf_key)]]
    /\ UNCHANGED <<oprf_key, arg_input, arg_pepper, arg_rng, pc, client, beta, out, call>>

\* client: generate_oprf3 borrows the blinding factor (&G::Scalar) and
\* leaves the OprfClientBytes with the caller
Finalize(i) ==
    /\ sess[i].pc \in {"evaluated", "done"}
    /\ IsOk(sess[i].beta_wire)
    /\ sess[i].finalized < MaxFinalize
    /\ \E res \in finalize(sess[i].input, sess[i].beta_wire.val,
                           sess[i].client.val.blinding_factor) :
          sess' = [sess EXCEPT ![i] =
                      [@ EXCEPT !.pc = "done", !.out = res,
                                !.finalized = @ + 1]]
    /\ UNCHANGED <<oprf_key, arg_input, arg_pepper, arg_rng, pc, client, beta, out, call>>

Next ==
    \E i \in Sessions :
        \/ Blind(i)
        \/ Evaluate(i)
        \/ Finalize(i)

Spec == Init /\ [][Next]_vars

-----------------------------------------------------------------------------
(* Properties *)

\* the base point of an input under a pepper, and the value the pipeline
\* is expected to return for it
BasePoint(m, p) == hash_to_curve(Hkdf_extract(D, p, m))

FinalHash(point, m) == Hkdf_extract("Sha256", None, to_arr(point) \o m)

\* C1: round trip.  With no pepper, the output of generate_oprf1 ->
\* generate_oprf2 -> generate_oprf3 equals the reference prf(m, k) of the
\* tests, for every input, valid key and valid blinding factor.
C1_RoundTrip ==
    (pc = "done" /\ arg_pepper = None)
        => (IsOk(out) /\ out.val = prf(arg_input, as_bytes(oprf_key)))

C1_Witness ==
    /\ pc = "done"
    /\ arg_pepper = None
    /\ IsOk(out)
    /\ client.val.blinding_factor > 1
    /\ oprf_key > 1

C3_RejectInvalidWire ==
    (call.tag = "evaluate" /\ ~(call.val.wire \in {to_arr(e) : e \in Elements}))
        => call.val.res = Err("InvalidPointError")

C3_Witness ==
    /\ call.tag = "evaluate"
    /\ Value(call.val.wire) >= Q
    /\ call.val.res = Err("InvalidPointError")

\* C4 (as claimed): generate_oprf3 called with a zero blinding factor
\* returns InvalidScalarError instead of an output value.
C4_ZeroFactorRejected ==
    (call.tag = "generate_oprf3" /\ call.val.blinding_factor = 0)
        => call.val.res = Err("InvalidScalarError")

\* C5 (as claimed): a client state is consumed by at most one
\* Unblind+Finalize call and is gone after it.
C5_SingleUse ==
    \A i \in Sessions :
        /\ sess[i].finalized <= 1
        /\ sess[i].finalized >= 1 => ~IsOk(sess[i].client)

\* C6: sessions do not interfere.  No step changes the server key, and in
\* every interleaving each finished session holds the output of the
\* unblinded computation on its own input: prf(m_i, k) when it used no pepper.
C6_NoInterference ==
    /\ [][oprf_key' = oprf_key]_vars
    /\ [](\A i \in Sessions :
            sess[i].pc = "done" =>
               /\ IsOk(sess[i].out)
               /\ sess[i].out.val =
                     FinalHash(mul(BasePoint(sess[i].input, sess[i].pepper), oprf_key),
                               sess[i].input)
               /\ sess[i].pepper = None =>
                     sess[i].out.val = prf(sess[i].input, as_bytes(oprf_key)))

C6_Witness ==
    /\ sess["s1"].pc = "done" /\ sess["s2"].pc = "done"
    /\ sess["s1"].input # sess["s2"].input
    /\ sess["s1"].pepper = None /\ sess["s2"].pepper = None
    /\ sess["s1"].client.val.blinding_factor # sess["s2"].client.val.blinding_factor

\* C8: unblinding inverts blinding.  generate_oprf3 applied to the alpha of
\* generate_oprf1(m, None, r) returns the final hash over the encoding of
\* the base point of m followed by m.
C8_UnblindInvertsBlind ==
    (pc = "inverted" /\ arg_pepper = None)
        => (/\ IsOk(out)
            /\ out.val = Hkdf_extract("Sha256", None,
                             to_arr(hash_to_curve(Hkdf_extract("Sha512", None, arg_input)))
                             \o arg_input))

C8_Witness ==
    /\ pc = "inverted"
    /\ arg_pepper = None
    /\ IsOk(out)
    /\ client.val.blinding_factor > 1
    /\ arg_input # <<>>

\* C9: shape of Blind.  generate_oprf1 returns the scalar drawn from the
\* supplied RNG as blinding_factor and the base point of (pepper, input)
\* times that scalar as alpha; it takes one scalar from the RNG and
\* changes nothing else.
C9_BlindShape ==
    [][(pc = "start" /\ pc' = "blinded") =>
         /\ IsOk(client')
         /\ client'.val.blinding_factor = Head(arg_rng)
         /\ client'.val.alpha = mul(BasePoint(arg_input, arg_pepper), Head(arg_rng))
         /\ arg_rng' = Tail(arg_rng)
         /\ UNCHANGED <<oprf_key, arg_input, arg_pepper, beta, out, call, sess>>]_vars

C9_Witness ==
    /\ pc = "blinded"
    /\ IsOk(client)
    /\ arg_pepper.some
    /\ client.val.blinding_factor > 1
    /\ client.val.alpha # BasePoint(arg_input, arg_pepper)

====
